---- MODULE Spec2Model ----
(***************************************************************************)
(* ColorPaletteTransfer: a palette is turned into a convex region of RGB   *)
(* space (ColorPaletteSpace::new), and every colour asked for is mapped to *)
(* the closest point of that region through a concurrent memoization cache *)
(* (ColorPaletteSpace::get_color).  main drives get_color over the pixels  *)
(* of an image from a pool of workers while a poller thread watches a      *)
(* counter of processed pixels.                                            *)
(*                                                                         *)
(* The geometry is exact: a point is a triple of integers, the closest     *)
(* point of the region is a triple of rationals with a common denominator  *)
(* and the `as u8` cast is applied to those rationals.  The channel range  *)
(* 0..255 of the program is scaled down to 0..MaxChan.                      *)
(***************************************************************************)
EXTENDS Integers, Sequences, FiniteSets

(***************************************************************************)
(* Bounds of the model.                                                    *)
(***************************************************************************)
MaxChan == 2
NumThreads == 2
MaxCalls == 2
MaxPixels == 3

(***************************************************************************)
(* Program constants.                                                      *)
(***************************************************************************)
\* The margin written as 0.99999, which the integer model reads as 0.
MarginMistyped == 0 * 99999
Margin == 99999
U8Max == 255

Chan == 0..MaxChan
RGB == Chan \X Chan \X Chan
Threads == 1..NumThreads

(***************************************************************************)
(* Vectors of three integers.                                              *)
(***************************************************************************)
Sub(a, b) == <<a[1] - b[1], a[2] - b[2], a[3] - b[3]>>
Scale(k, a) == <<k * a[1], k * a[2], k * a[3]>>
Dot(a, b) == a[1] * b[1] + a[2] * b[2] + a[3] * b[3]
Cross(a, b) == <<a[2] * b[3] - a[3] * b[2],
                 a[3] * b[1] - a[1] * b[3],
                 a[1] * b[2] - a[2] * b[1]>>
Det(a, b, c) == Dot(a, Cross(b, c))

\* A point with rational coordinates n[i] / d, d > 0.
Rat(n, d) == [n |-> n, d |-> d]
OfPoint(p) == Rat(p, 1)

\* Orientation of the rational point P against the plane through a, b, c
\* (scaled by P.d > 0, which keeps the sign).
Orient(a, b, c, P) == Det(Sub(b, a), Sub(c, a), Sub(P.n, Scale(P.d, a)))

\* P is in the closed tetrahedron a b c d (of non-zero volume).
InTetra(a, b, c, d, P) ==
    /\ Orient(a, b, c, OfPoint(d)) # 0
    /\ Orient(a, b, c, OfPoint(d)) * Orient(a, b, c, P) >= 0
    /\ Orient(a, b, d, OfPoint(c)) * Orient(a, b, d, P) >= 0
    /\ Orient(a, c, d, OfPoint(b)) * Orient(a, c, d, P) >= 0
    /\ Orient(b, c, d, OfPoint(a)) * Orient(b, c, d, P) >= 0

\* A hull is kept by the points that generate it and by the non-degenerate
\* edges, triangles and tetrahedra they span (increasing tuples of positions).
Idx2(V) ==
    {e \in (DOMAIN V) \X (DOMAIN V) : e[1] < e[2] /\ V[e[1]] # V[e[2]]}
Idx3(V) ==
    {t \in (DOMAIN V) \X (DOMAIN V) \X (DOMAIN V) :
        /\ t[1] < t[2]
        /\ t[2] < t[3]
        /\ Cross(Sub(V[t[2]], V[t[1]]), Sub(V[t[3]], V[t[1]])) # <<0, 0, 0>>}
Idx4(V) ==
    {t \in (DOMAIN V) \X (DOMAIN V) \X (DOMAIN V) \X (DOMAIN V) :
        /\ t[1] < t[2]
        /\ t[2] < t[3]
        /\ t[3] < t[4]
        /\ Orient(V[t[1]], V[t[2]], V[t[3]], OfPoint(V[t[4]])) # 0}
Hull(V) ==
    [points |-> V, edges |-> Idx2(V), faces |-> Idx3(V), solids |-> Idx4(V)]
NoHull == [points |-> <<>>, edges |-> {}, faces |-> {}, solids |-> {}]

\* P is in the closed convex hull H (Caratheodory: in a tetrahedron spanned
\* by four of its points).
InHull(H, P) ==
    \E t \in H.solids :
        InTetra(H.points[t[1]], H.points[t[2]], H.points[t[3]],
                H.points[t[4]], P)

\* The points V span a solid of positive volume.
PositiveVolume(V) == Idx4(V) # {}

\* Orthogonal projections of q on the points of H, on the lines through two
\* of them and on the planes through three of them.
OnLine(q, a, b) ==
    LET e == Sub(b, a)
        l == Dot(e, e)
        s == Dot(Sub(q, a), e)
    IN  Rat(<<a[1] * l + s * e[1], a[2] * l + s * e[2], a[3] * l + s * e[3]>>,
            l)
OnPlane(q, a, b, c) ==
    LET n == Cross(Sub(b, a), Sub(c, a))
        l == Dot(n, n)
        s == Dot(Sub(q, a), n)
    IN  Rat(<<q[1] * l - s * n[1], q[2] * l - s * n[2], q[3] * l - s * n[3]>>,
            l)
Projections(H, q) ==
    {OfPoint(H.points[i]) : i \in DOMAIN H.points}
    \cup {OnLine(q, H.points[e[1]], H.points[e[2]]) : e \in H.edges}
    \cup {OnPlane(q, H.points[t[1]], H.points[t[2]], H.points[t[3]]) :
            t \in H.faces}

\* P is the point of H closest to q: it is in H and no point of H lies on
\* q's side of the plane through P orthogonal to q - P.
IsClosest(H, q, P) ==
    /\ \A i \in DOMAIN H.points :
         Dot(Sub(Scale(P.d, q), P.n), Sub(Scale(P.d, H.points[i]), P.n)) <= 0
    /\ InHull(H, P)
ClosestPoint(H, q) == CHOOSE P \in Projections(H, q) : IsClosest(H, q, P)

\* The squared distance from q to P, as a fraction.
Dist2Num(q, P) == Dot(Sub(Scale(P.d, q), P.n), Sub(Scale(P.d, q), P.n))
Dist2Den(P) == P.d * P.d

\* num / den > m * m, computed without forming m * m (den > 0, m >= 0).
ExceedsSquare(num, den, m) ==
    IF m = 0 THEN num > 0
    ELSE LET k == num \div den
         IN  \/ k \div m > m
             \/ k \div m = m /\ (k % m > 0 \/ num % den > 0)

(***************************************************************************)
(* Inputs: the palettes handed to ColorPaletteSpace::new (a colour that    *)
(* does not parse as a hex code is BadHex) and the image files given to    *)
(* main.                                                                   *)
(***************************************************************************)
BadHex == <<-1, -1, -1>>
Palettes ==
    { <<<<1, 0, 1>>, <<2, 0, 0>>, <<2, 1, 1>>, <<2, 2, 1>>>>,
      <<<<0, 0, 0>>, <<2, 0, 0>>, <<0, 2, 0>>, <<0, 0, 2>>, <<0, 0, 0>>>>,
      <<<<0, 1, 0>>, <<0, 2, 2>>, <<1, 2, 0>>, <<2, 2, 0>>, <<1, 0, 2>>>>,
      <<>>,
      <<<<0, 0, 0>>, <<2, 2, 2>>>>,
      <<<<0, 0, 0>>, <<2, 0, 0>>, <<0, 2, 1>>>>,
      <<<<1, 1, 1>>, <<1, 1, 1>>, <<1, 1, 1>>, <<1, 1, 1>>>>,
      <<<<0, 0, 0>>, <<1, 1, 1>>, <<2, 2, 2>>, <<1, 1, 1>>>>,
      <<<<0, 0, 0>>, <<2, 0, 0>>, <<0, 2, 0>>, <<2, 2, 0>>, <<1, 1, 0>>>>,
      <<<<0, 0, 0>>, <<2, 0, 0>>, BadHex, <<0, 0, 2>>>> }

\* An image file: missing, not decodable, or holding up to MaxPixels pixels.
ImageColours == {c \in RGB : c[2] = MaxChan /\ c[3] = 0}
Images == UNION {[1..n -> ImageColours] : n \in 0..MaxPixels}
NoFile == [kind |-> "missing", pixels |-> <<>>]
Files ==
    {NoFile, [kind |-> "corrupt", pixels |-> <<>>]}
    \cup {[kind |-> "image", pixels |-> p] : p \in Images}

(***************************************************************************)
(* State.                                                                  *)
(***************************************************************************)
VARIABLES
    palette,    \* the colours given to new
    built,      \* the outcome of new: "none" before it ran
    space,      \* the geometry of the ColorPaletteSpace
    cache,      \* the CHashMap of the ColorPaletteSpace
    th,         \* per thread: its place in get_color and its locals
    calls,      \* number of get_color calls begun
    returned,   \* history: the <<rgb, colour>> pairs get_color returned
    file,       \* the image file given to main
    pcMain,     \* main's place
    result,     \* what main returned
    img,        \* the decoded pixels
    pending,    \* positions of the pixels not yet drained
    out,        \* the colours yielded, by position of the pixel
    counter,    \* the RelaxedCounter
    poller,     \* the progress thread's place
    pos,        \* the progress bar's position
    bytes,      \* the collected output buffer
    saved       \* the buffers written to the output file

libVars == <<palette, built, space, cache, th, calls, returned>>
mainVars == <<file, pcMain, result, img, pending, out, counter, poller, pos,
              bytes, saved>>
vars == <<libVars, mainVars>>

NoSpace == [colorspace |-> NoHull, zero_ball |-> 0, zero_iso |-> <<0, 0, 0>>]
NoColour == <<>>
EmptyMap == [k \in {} |-> NoColour]
Idle == [pc |-> "idle", rgb |-> NoColour, new |-> NoColour, ret |-> NoColour,
         idx |-> 0]

(***************************************************************************)
(* ColorPaletteSpace::new                                                  *)
(***************************************************************************)
\* from_convex_hull as it would be if the first colour were skipped.
from_convex_hull_of_tail(color_points) ==
    IF color_points # <<>> /\ PositiveVolume(Tail(color_points))
    THEN [some |-> TRUE, hull |-> Hull(Tail(color_points))]
    ELSE [some |-> FALSE, hull |-> NoHull]

\* from_convex_hull as it would be if it only counted the points.
from_convex_hull_by_count(color_points) ==
    IF Len(color_points) >= 4
    THEN [some |-> TRUE, hull |-> Hull(color_points)]
    ELSE [some |-> FALSE, hull |-> NoHull]

\* ConvexPolyhedron::from_convex_hull: the hull of the points, or none when
\* they span no solid.
from_convex_hull(color_points) ==
    IF PositiveVolume(color_points)
    THEN [some |-> TRUE, hull |-> Hull(color_points)]
    ELSE [some |-> FALSE, hull |-> NoHull]

\* new(palette): the first colour that does not parse ends it with HexError,
\* a palette without a hull with ConvexHullError.
new(p) ==
    IF \E i \in DOMAIN p : p[i] = BadHex
    THEN [tag |-> "HexError", space |-> NoSpace]
    ELSE LET colorspace == from_convex_hull(p)
         IN  IF ~colorspace.some
             THEN [tag |-> "ConvexHullError", space |-> NoSpace]
             ELSE [tag |-> "Ok",
                   space |-> [colorspace |-> colorspace.hull,
                              zero_ball |-> 0,
                              zero_iso |-> <<0, 0, 0>>]]

(***************************************************************************)
(* ColorPaletteSpace::get_color                                            *)
(***************************************************************************)
\* closest_points(pos1, g1, pos2, g2, margin) between the hull g1 translated
\* by pos1 and the ball of radius g2 centred at pos2: Intersecting when they
\* touch or overlap, Disjoint when they are further apart than margin, and
\* otherwise WithinMargin with the point of the hull closest to the ball.
closest_points(pos1, g1, pos2, g2, margin) ==
    LET q == Sub(pos2, pos1)
    IN  IF InHull(g1, OfPoint(q))
        THEN [tag |-> "Intersecting", p1 |-> OfPoint(pos2), p2 |-> OfPoint(pos2)]
        ELSE LET P == ClosestPoint(g1, q)
                 W == Rat(<<P.n[1] + P.d * pos1[1], P.n[2] + P.d * pos1[2],
                            P.n[3] + P.d * pos1[3]>>, P.d)
             IN  IF ~ExceedsSquare(Dist2Num(q, P), Dist2Den(P), g2)
                 THEN [tag |-> "Intersecting", p1 |-> W, p2 |-> OfPoint(pos2)]
                 ELSE IF ExceedsSquare(Dist2Num(q, P), Dist2Den(P), margin + g2)
                      THEN [tag |-> "Disjoint", p1 |-> W, p2 |-> OfPoint(pos2)]
                      ELSE [tag |-> "WithinMargin", p1 |-> W,
                            p2 |-> OfPoint(pos2)]

\* `i as u8` on a float: truncation toward zero, saturating at 0 and 255.
AsU8(num, den) ==
    IF num <= 0 THEN 0
    ELSE IF num \div den > U8Max THEN U8Max ELSE num \div den

\* The cast as it would be if each channel were rounded to the nearest
\* integer.
CastRounded(P) ==
    <<AsU8(2 * P.n[1] + P.d, 2 * P.d), AsU8(2 * P.n[2] + P.d, 2 * P.d),
      AsU8(2 * P.n[3] + P.d, 2 * P.d)>>

\* The colour the match builds from a closest point.
Cast(P) == <<AsU8(P.n[1], P.d), AsU8(P.n[2], P.d), AsU8(P.n[3], P.d)>>

\* The match as it would be if Intersecting gave the default colour.
MatchedIntersectingDefault(sp, rgb) ==
    LET res == closest_points(sp.zero_iso, sp.colorspace, rgb, sp.zero_ball,
                              Margin)
    IN  CASE res.tag = "Intersecting" -> [panic |-> FALSE, new |-> <<0, 0, 0>>]
          [] res.tag = "WithinMargin" -> [panic |-> FALSE, new |-> Cast(res.p1)]
          [] res.tag = "Disjoint" -> [panic |-> TRUE, new |-> NoColour]

\* The match as it would be if Intersecting gave the first palette colour.
MatchedSnapInside(sp, rgb) ==
    LET res == closest_points(sp.zero_iso, sp.colorspace, rgb, sp.zero_ball,
                              Margin)
    IN  CASE res.tag = "Intersecting" ->
               [panic |-> FALSE, new |-> sp.colorspace.points[1]]
          [] res.tag = "WithinMargin" -> [panic |-> FALSE, new |-> Cast(res.p1)]
          [] res.tag = "Disjoint" -> [panic |-> TRUE, new |-> NoColour]

\* The match as it would be if WithinMargin took the point of the ball.
MatchedSecondPoint(sp, rgb) ==
    LET res == closest_points(sp.zero_iso, sp.colorspace, rgb, sp.zero_ball,
                              Margin)
    IN  CASE res.tag = "Intersecting" -> [panic |-> FALSE, new |-> rgb]
          [] res.tag = "WithinMargin" -> [panic |-> FALSE, new |-> Cast(res.p2)]
          [] res.tag = "Disjoint" -> [panic |-> TRUE, new |-> NoColour]

\* The arms of the match as they would be if Disjoint gave the colour asked
\* for.
MatchDisjointUnchanged(res, rgb) ==
    CASE res.tag = "Intersecting" -> [panic |-> FALSE, new |-> rgb]
      [] res.tag = "WithinMargin" -> [panic |-> FALSE, new |-> Cast(res.p1)]
      [] res.tag = "Disjoint" -> [panic |-> FALSE, new |-> rgb]

\* The arms of the match on an outcome of closest_points: the colour, or a
\* panic.
Match(res, rgb) ==
    CASE res.tag = "Intersecting" -> [panic |-> FALSE, new |-> rgb]
      [] res.tag = "WithinMargin" -> [panic |-> FALSE, new |-> Cast(res.p1)]
      [] res.tag = "Disjoint" -> [panic |-> TRUE, new |-> NoColour]

\* The match on the outcome of the closest_points call of get_color.
Matched(sp, rgb) ==
    Match(closest_points(sp.zero_iso, sp.colorspace, rgb, sp.zero_ball,
                         Margin), rgb)

\* insert as it would be if the key were stored as its own value.
InsertedKeyAsValue(map, key, value) ==
    [k \in DOMAIN map \cup {key} |-> IF k = key THEN key ELSE map[k]]

\* insert as it would be if it dropped the entries of the other keys.
InsertedClobber(map, key, value) == [k \in {key} |-> value]

\* self.cache.insert(key, value)
Inserted(map, key, value) ==
    [k \in DOMAIN map \cup {key} |-> IF k = key THEN value ELSE map[k]]

\* The lookup as it would be if a hit returned the colour asked for.
CacheGetReturnsKey(t) ==
    /\ th[t].pc = "get"
    /\ IF th[t].rgb \in DOMAIN cache
       THEN th' = [th EXCEPT ![t].pc = "ret", ![t].ret = th[t].rgb]
       ELSE th' = [th EXCEPT ![t].pc = "query"]
    /\ UNCHANGED <<palette, built, space, cache, calls, returned, mainVars>>

\* The lookup as it would be if a hit were ignored and the colour computed
\* again.
CacheGetRecomputes(t) ==
    /\ th[t].pc = "get"
    /\ th' = [th EXCEPT ![t].pc = "query"]
    /\ UNCHANGED <<palette, built, space, cache, calls, returned, mainVars>>

\* The cache lookup that opens get_color: a hit returns the stored colour.
CacheGet(t) ==
    /\ th[t].pc = "get"
    /\ IF th[t].rgb \in DOMAIN cache
       THEN th' = [th EXCEPT ![t].pc = "ret", ![t].ret = cache[th[t].rgb]]
       ELSE th' = [th EXCEPT ![t].pc = "query"]
    /\ UNCHANGED <<palette, built, space, cache, calls, returned, mainVars>>

\* The query as it would be if it moved the placement of the hull to the
\* colour asked for.
ClosestQueryMovesIso(t) ==
    /\ th[t].pc = "query"
    /\ space' = [space EXCEPT !.zero_iso = th[t].rgb]
    /\ LET m == Matched(space, th[t].rgb)
       IN  th' = IF m.panic
                 THEN [th EXCEPT ![t].pc = "panicked"]
                 ELSE [th EXCEPT ![t].pc = "insert", ![t].new = m.new]
    /\ UNCHANGED <<palette, built, cache, calls, returned, mainVars>>

\* The closest-points query and the match on its outcome.
ClosestQuery(t) ==
    /\ th[t].pc = "query"
    /\ LET m == Matched(space, th[t].rgb)
       IN  th' = IF m.panic
                 THEN [th EXCEPT ![t].pc = "panicked"]
                 ELSE [th EXCEPT ![t].pc = "insert", ![t].new = m.new]
    /\ UNCHANGED <<palette, built, space, cache, calls, returned, mainVars>>

\* The insert as it would be if the colour were stored under itself, not
\* under the colour asked for.
CacheInsertUnderValue(t) ==
    /\ th[t].pc = "insert"
    /\ cache' = Inserted(cache, th[t].new, th[t].new)
    /\ th' = [th EXCEPT ![t].pc = "ret", ![t].ret = th[t].new]
    /\ UNCHANGED <<palette, built, space, calls, returned, mainVars>>

\* The insert as it would be if the colour found were also stored as its
\* own resolution.
CacheInsertAlsoValue(t) ==
    /\ th[t].pc = "insert"
    /\ cache' = Inserted(Inserted(cache, th[t].new, th[t].new), th[t].rgb,
                         th[t].new)
    /\ th' = [th EXCEPT ![t].pc = "ret", ![t].ret = th[t].new]
    /\ UNCHANGED <<palette, built, space, calls, returned, mainVars>>

\* The insert into the cache that ends get_color.
CacheInsert(t) ==
    /\ th[t].pc = "insert"
    /\ cache' = Inserted(cache, th[t].rgb, th[t].new)
    /\ th' = [th EXCEPT ![t].pc = "ret", ![t].ret = th[t].new]
    /\ UNCHANGED <<palette, built, space, calls, returned, mainVars>>

get_color(t) == CacheGet(t) \/ ClosestQuery(t) \/ CacheInsert(t)

\* The closest-points query and the match on its outcome when the library
\* may fail its contract: it answers as closest_points does, or Disjoint.
Answers(sp, rgb) ==
    {closest_points(sp.zero_iso, sp.colorspace, rgb, sp.zero_ball, Margin),
     [tag |-> "Disjoint", p1 |-> OfPoint(rgb), p2 |-> OfPoint(rgb)]}
ClosestQueryAnswered(t) ==
    /\ th[t].pc = "query"
    /\ \E res \in Answers(space, th[t].rgb) :
         LET m == Match(res, th[t].rgb)
         IN  th' = IF m.panic
                   THEN [th EXCEPT ![t].pc = "panicked"]
                   ELSE [th EXCEPT ![t].pc = "insert", ![t].new = m.new]
    /\ UNCHANGED <<palette, built, space, cache, calls, returned, mainVars>>

(***************************************************************************)
(* The library under any caller: new, then get_color from any thread with  *)
(* any colour, MaxCalls times.                                             *)
(***************************************************************************)
LibNew ==
    /\ built = "none"
    /\ built' = new(palette).tag
    /\ space' = new(palette).space
    /\ cache' = EmptyMap
    /\ UNCHANGED <<palette, th, calls, returned, mainVars>>

LibCall(t, x) ==
    /\ built = "Ok"
    /\ th[t].pc = "idle"
    /\ calls < MaxCalls
    /\ th' = [th EXCEPT ![t].pc = "get", ![t].rgb = x]
    /\ calls' = calls + 1
    /\ UNCHANGED <<palette, built, space, cache, returned, mainVars>>

LibReturn(t) ==
    /\ th[t].pc = "ret"
    /\ returned' = returned \cup {<<th[t].rgb, th[t].ret>>}
    /\ th' = [th EXCEPT ![t] = Idle]
    /\ UNCHANGED <<palette, built, space, cache, calls, mainVars>>

InitLib ==
    /\ palette \in Palettes
    /\ built = "none"
    /\ space = NoSpace
    /\ cache = EmptyMap
    /\ th = [t \in Threads |-> Idle]
    /\ calls = 0
    /\ returned = {}
    /\ file = NoFile
    /\ pcMain = "new"
    /\ result = "none"
    /\ img = <<>>
    /\ pending = {}
    /\ out = <<>>
    /\ counter = 0
    /\ poller = "unspawned"
    /\ pos = 0
    /\ bytes = <<>>
    /\ saved = <<>>

NextLib ==
    \/ LibNew
    \/ \E t \in Threads, x \in RGB : LibCall(t, x)
    \/ \E t \in Threads : CacheGet(t)
    \/ \E t \in Threads : ClosestQuery(t)
    \/ \E t \in Threads : CacheInsert(t)
    \/ \E t \in Threads : LibReturn(t)

SpecLib == InitLib /\ [][NextLib]_vars

\* The library under any caller and any answer of closest_points.
NextAnswered ==
    \/ LibNew
    \/ \E t \in Threads, x \in RGB : LibCall(t, x)
    \/ \E t \in Threads : CacheGet(t)
    \/ \E t \in Threads : ClosestQueryAnswered(t)
    \/ \E t \in Threads : CacheInsert(t)
    \/ \E t \in Threads : LibReturn(t)

SpecAnswered == InitLib /\ [][NextAnswered]_vars

(***************************************************************************)
(* main                                                                    *)
(***************************************************************************)
\* The first step of main as it would be if the error of new were dropped
\* and main went on to the image.
MainNewErrorDropped ==
    /\ pcMain = "new"
    /\ built' = new(palette).tag
    /\ space' = new(palette).space
    /\ cache' = EmptyMap
    /\ pcMain' = "open"
    /\ UNCHANGED <<palette, th, calls, returned, file, result, img, pending,
                   out, counter, poller, pos, bytes, saved>>

\* The palette space is built first; an error ends main.
MainNew ==
    /\ pcMain = "new"
    /\ built' = new(palette).tag
    /\ space' = new(palette).space
    /\ cache' = EmptyMap
    /\ IF new(palette).tag = "Ok"
       THEN pcMain' = "open" /\ UNCHANGED result
       ELSE pcMain' = "exit" /\ result' = new(palette).tag
    /\ UNCHANGED <<palette, th, calls, returned, file, img, pending, out,
                   counter, poller, pos, bytes, saved>>

\* The image is opened and decoded; a missing or undecodable file ends main.
MainOpen ==
    /\ pcMain = "open"
    /\ CASE file.kind = "missing" ->
              pcMain' = "exit" /\ result' = "IoError" /\ UNCHANGED img
         [] file.kind = "corrupt" ->
              pcMain' = "exit" /\ result' = "ImgError" /\ UNCHANGED img
         [] file.kind = "image" ->
              pcMain' = "spawn" /\ img' = file.pixels /\ UNCHANGED result
    /\ UNCHANGED <<libVars, file, pending, out, counter, poller, pos, bytes,
                   saved>>

\* The counter is created, the progress thread spawned and the pixels are
\* collected for draining.
MainSpawn ==
    /\ pcMain = "spawn"
    /\ counter' = 0
    /\ poller' = "polling"
    /\ pending' = DOMAIN img
    /\ out' = [i \in DOMAIN img |-> NoColour]
    /\ pcMain' = "map"
    /\ UNCHANGED <<libVars, file, result, img, pos, bytes, saved>>

\* One round of the progress thread: it reads the counter, shows it, and
\* ends once the counter has reached the number of pixels.  It dies with the
\* process.
Poll ==
    /\ poller = "polling"
    /\ pcMain # "exit"
    /\ pos' = counter
    /\ poller' = IF counter >= Len(img) THEN "finished" ELSE "polling"
    /\ UNCHANGED <<libVars, file, pcMain, result, img, pending, out, counter,
                   bytes, saved>>

\* A worker drains the pixel at position i and calls get_color on it.
WorkerTake(t, i) ==
    /\ pcMain = "map"
    /\ th[t].pc = "idle"
    /\ i \in pending
    /\ pending' = pending \ {i}
    /\ th' = [th EXCEPT ![t].pc = "get", ![t].rgb = img[i], ![t].idx = i]
    /\ calls' = calls + 1
    /\ UNCHANGED <<palette, built, space, cache, returned, file, pcMain,
                   result, img, out, counter, poller, pos, bytes, saved>>

\* The end of a pixel as it would be if the counter were incremented twice.
WorkerDoneCountsTwice(t) ==
    /\ pcMain = "map"
    /\ th[t].pc = "ret"
    /\ counter' = counter + 2
    /\ out' = [out EXCEPT ![th[t].idx] = th[t].ret]
    /\ returned' = returned \cup {<<th[t].rgb, th[t].ret>>}
    /\ th' = [th EXCEPT ![t] = Idle]
    /\ UNCHANGED <<palette, built, space, cache, calls, file, pcMain, result,
                   img, pending, poller, pos, bytes, saved>>

\* get_color has returned: the counter is incremented and the colour is
\* yielded for the pixel's position.
WorkerDone(t) ==
    /\ pcMain = "map"
    /\ th[t].pc = "ret"
    /\ counter' = counter + 1
    /\ out' = [out EXCEPT ![th[t].idx] = th[t].ret]
    /\ returned' = returned \cup {<<th[t].rgb, th[t].ret>>}
    /\ th' = [th EXCEPT ![t] = Idle]
    /\ UNCHANGED <<palette, built, space, cache, calls, file, pcMain, result,
                   img, pending, poller, pos, bytes, saved>>

\* The collection as it would be if it kept the order of completion (here:
\* the last pixel first).
FlattenReversed(map, n) ==
    [j \in 1..(3 * n) |-> map[n - ((j - 1) \div 3)][((j - 1) % 3) + 1]]

\* flat_map_iter and collect: the colours yielded, flattened into the byte
\* buffer in the order of the pixels.
Flatten(map, n) ==
    [j \in 1..(3 * n) |-> map[((j - 1) \div 3) + 1][((j - 1) % 3) + 1]]

\* The end of the parallel map as it would be if the panic of a worker were
\* swallowed and main went on to write what it has.
MainCollectSwallowsPanic ==
    /\ pcMain = "map"
    /\ \A t \in Threads : th[t].pc \in {"idle", "panicked"}
    /\ IF \E t \in Threads : th[t].pc = "panicked"
       THEN bytes' = <<>>
       ELSE pending = {} /\ bytes' = Flatten(out, Len(img))
    /\ pcMain' = "save"
    /\ UNCHANGED <<libVars, file, result, img, pending, out, counter, poller,
                   pos, saved>>

\* The parallel map ends once the workers are done: the colours yielded are
\* collected into the byte buffer, or the panic of a worker is carried on to
\* main.
MainCollect ==
    /\ pcMain = "map"
    /\ \A t \in Threads : th[t].pc \in {"idle", "panicked"}
    /\ IF \E t \in Threads : th[t].pc = "panicked"
       THEN pcMain' = "exit" /\ result' = "panic" /\ UNCHANGED bytes
       ELSE /\ pending = {}
            /\ bytes' = Flatten(out, Len(img))
            /\ pcMain' = "save"
            /\ UNCHANGED result
    /\ UNCHANGED <<libVars, file, img, pending, out, counter, poller, pos,
                   saved>>

\* The buffer is written to the output file, which may fail.
MainSave ==
    /\ pcMain = "save"
    /\ \/ saved' = Append(saved, bytes) /\ result' = "Ok"
       \/ result' = "ImgError" /\ UNCHANGED saved
    /\ pcMain' = "exit"
    /\ UNCHANGED <<libVars, file, img, pending, out, counter, poller, pos,
                   bytes>>

Init ==
    /\ palette \in Palettes
    /\ built = "none"
    /\ space = NoSpace
    /\ cache = EmptyMap
    /\ th = [t \in Threads |-> Idle]
    /\ calls = 0
    /\ returned = {}
    /\ file \in Files
    /\ pcMain = "new"
    /\ result = "none"
    /\ img = <<>>
    /\ pending = {}
    /\ out = <<>>
    /\ counter = 0
    /\ poller = "unspawned"
    /\ pos = 0
    /\ bytes = <<>>
    /\ saved = <<>>

Next ==
    \/ MainNew
    \/ MainOpen
    \/ MainSpawn
    \/ Poll
    \/ \E t \in Threads, i \in DOMAIN img : WorkerTake(t, i)
    \/ \E t \in Threads : CacheGet(t)
    \/ \E t \in Threads : ClosestQuery(t)
    \/ \E t \in Threads : CacheInsert(t)
    \/ \E t \in Threads : WorkerDone(t)
    \/ MainCollect
    \/ MainSave

Spec == Init /\ [][Next]_vars

\* main when closest_points may fail its contract and report Disjoint.
NextAborting ==
    \/ MainNew
    \/ MainOpen
    \/ MainSpawn
    \/ Poll
    \/ \E t \in Threads, i \in DOMAIN img : WorkerTake(t, i)
    \/ \E t \in Threads : CacheGet(t)
    \/ \E t \in Threads : ClosestQueryAnswered(t)
    \/ \E t \in Threads : CacheInsert(t)
    \/ \E t \in Threads : WorkerDone(t)
    \/ MainCollect
    \/ MainSave

SpecAborting == Init /\ [][NextAborting]_vars

\* main under fair scheduling: the main thread, the progress thread and
\* every worker take their next step whenever it stays possible.  A
\* worker's closest-points query is its only step at "query", so that it
\* is taken is stated on the worker's place.
SpecFair ==
    /\ Spec
    /\ WF_vars(MainNew \/ MainOpen \/ MainSpawn \/ MainCollect \/ MainSave)
    /\ WF_vars(Poll)
    /\ \A t \in Threads :
         /\ WF_vars(\/ \E i \in DOMAIN img : WorkerTake(t, i)
                    \/ CacheGet(t)
                    \/ CacheInsert(t)
                    \/ WorkerDone(t))
         /\ []<>(th[t].pc # "query")

(***************************************************************************)
(* Properties.                                                             *)
(***************************************************************************)
\* The nearest-point resolution of x without the cache.
Resolve(x) == Matched(space, x).new
\* Thread t has run the closest-points query: rgb and new hold x and
\* resolve(x).
Resolved(t) == th[t].pc = "insert"
InRegion(x) == InHull(space.colorspace, OfPoint(x))
Abs(k) == IF k < 0 THEN -k ELSE k

\* C1: once the pixels are collected, the buffer holds as many pixels as the
\* image and the pixel at position i is resolve(input pixel i), whatever
\* workers mapped them and however their steps interleaved.
OrderPreserved ==
    pcMain = "save" =>
        /\ Len(bytes) = 3 * Len(img)
        /\ \A i \in DOMAIN img :
             <<bytes[3 * i - 2], bytes[3 * i - 1], bytes[3 * i]>>
                = Resolve(img[i])
OrderPreservedWitness ==
    /\ pcMain = "save"
    /\ Len(img) >= 2
    /\ Resolve(img[1]) # Resolve(img[Len(img)])
    /\ <<bytes[1], bytes[2], bytes[3]>> # img[1]

\* C2: every get_color(x) that has returned gave the colour the first
\* get_color(x) gave, and that colour is the uncached resolution of x.
CacheConsistent ==
    /\ \A r \in returned :
         /\ r[2] = Resolve(r[1])
         /\ \A q \in returned : q[1] = r[1] => q[2] = r[2]
    /\ \A t \in Threads :
         th[t].pc = "ret" =>
            /\ th[t].ret = Resolve(th[t].rgb)
            /\ \A r \in returned : r[1] = th[t].rgb => r[2] = th[t].ret
CacheConsistentWitness ==
    \E t \in Threads :
        /\ th[t].pc = "ret"
        /\ th[t].new = NoColour
        /\ <<th[t].rgb, th[t].ret>> \in returned
        /\ th[t].ret # th[t].rgb

\* C3: a query that lies inside or on the region is resolved to itself.
InsideUnchanged ==
    \A t \in Threads :
        Resolved(t) /\ InRegion(th[t].rgb) => th[t].new = th[t].rgb
InsideUnchangedWitness ==
    \E t \in Threads :
        /\ Resolved(t)
        /\ InRegion(th[t].rgb)
        /\ \A i \in DOMAIN palette : palette[i] # th[t].rgb
        /\ th[t].new = th[t].rgb

\* C4 as stated: resolving a resolved colour again changes nothing.
Idempotent ==
    \A t \in Threads : Resolved(t) => Resolve(th[t].new) = th[t].new
\* C4 as amended: resolving a resolved colour again changes nothing when the
\* resolved colour lies inside or on the region.
IdempotentInRegion ==
    \A t \in Threads :
        Resolved(t) /\ InRegion(th[t].new) =>
            Resolve(th[t].new) = th[t].new
IdempotentInRegionWitness ==
    \E t \in Threads :
        /\ Resolved(t)
        /\ ~InRegion(th[t].rgb)
        /\ InRegion(th[t].new)
        /\ Resolve(th[t].new) = th[t].new

\* C5: every colour of the palette the space was built from is resolved to
\* itself.
PaletteFixed ==
    \A t \in Threads :
        Resolved(t) /\ (\E i \in DOMAIN palette : palette[i] = th[t].rgb)
            => th[t].new = th[t].rgb
PaletteFixedWitness ==
    \E t \in Threads :
        /\ Resolved(t)
        /\ th[t].rgb = palette[1]
        /\ th[t].new = palette[1]

\* C6: a resolved colour is within one unit per channel of a point of the
\* region (the closest point of the region, which the cast truncates).
NearRegion(x, o) ==
    \/ InRegion(o)
    \/ LET P == ClosestPoint(space.colorspace, x)
       IN  /\ InHull(space.colorspace, P)
           /\ \A c \in 1..3 : Abs(o[c] * P.d - P.n[c]) <= P.d
Contained ==
    \A t \in Threads : Resolved(t) => NearRegion(th[t].rgb, th[t].new)
ContainedWitness ==
    \E t \in Threads :
        /\ Resolved(t)
        /\ ~InRegion(th[t].new)
        /\ NearRegion(th[t].rgb, th[t].new)

\* C7: a palette of colours that span no solid (fewer than four, all the
\* same, all in one plane) makes new return ConvexHullError and no palette
\* space; a palette with four colours not in one plane makes it succeed.
Flat(p) ==
    \A i \in DOMAIN p, j \in DOMAIN p, k \in DOMAIN p, l \in DOMAIN p :
        Det(Sub(p[j], p[i]), Sub(p[k], p[i]), Sub(p[l], p[i])) = 0
Parsed(p) == \A i \in DOMAIN p : p[i] # BadHex
NeverDisjoint ==
    /\ ~ExceedsSquare(3 * U8Max * U8Max + 1, 1, Margin)
    /\ \A t \in Threads : th[t].pc # "panicked"
NeverDisjointWitness ==
    \E t \in Threads :
        /\ Resolved(t)
        /\ th[t].rgb = <<MaxChan, MaxChan, MaxChan>>
        /\ \E i \in DOMAIN palette : palette[i] = <<0, 0, 0>>
        /\ ~InRegion(th[t].rgb)

\* C9: whatever threads raced on a key, the cache holds for it the colour
\* resolve gives, every call that returned gave the colour the cache holds,
\* and the entries of the other keys are still there, unaltered.
RaceSafe ==
    /\ \A k \in DOMAIN cache : cache[k] = Resolve(k)
    /\ \A r \in returned : r[1] \in DOMAIN cache /\ cache[r[1]] = r[2]
    /\ \A t \in Threads :
         th[t].pc = "ret" =>
            th[t].rgb \in DOMAIN cache /\ cache[th[t].rgb] = th[t].ret
RaceSafeWitness ==
    /\ \E t \in Threads, u \in Threads :
         /\ t # u
         /\ th[t].pc = "ret"
         /\ th[t].new # NoColour
         /\ th[u].pc = "insert"
         /\ th[u].rgb = th[t].rgb
         /\ th[u].new # th[u].rgb
    /\ \E r \in returned :
         /\ \A t \in Threads : th[t].rgb # r[1]
         /\ r[2] # r[1]

\* C10: the cache is empty when the palette space is built, and a key once
\* written stays, with the colour written, in every later state.
CacheGrows ==
    /\ cache = EmptyMap
    /\ [][/\ built = "none" => cache' = EmptyMap
          /\ \A k \in DOMAIN cache :
               k \in DOMAIN cache' /\ cache'[k] = cache[k]]_vars
CacheGrowsWitness ==
    /\ \E t \in Threads : th[t].pc = "insert" /\ th[t].rgb \in DOMAIN cache

\* C11: when new returns an error, main is over with that error as its
\* result: no image was decoded, no progress thread spawned, no get_color
\* call begun, no buffer collected and no output written.
FailsFast ==
    built \in {"HexError", "ConvexHullError"} =>
        /\ pcMain = "exit"
        /\ result = built
        /\ img = <<>>
        /\ poller = "unspawned"
        /\ calls = 0
        /\ cache = EmptyMap
        /\ bytes = <<>>
        /\ saved = <<>>
FailsFastWitness ==
    /\ built = "ConvexHullError"
    /\ result = "ConvexHullError"
    /\ file.kind = "image"
    /\ file.pixels # <<>>

\* C12: the progress thread ends only having read a counter that has
\* reached the number of pixels, and once the counter has reached the
\* number of pixels the progress thread eventually ends.
PollerTerminates ==
    /\ [](poller = "finished" => pos >= Len(img) /\ counter >= Len(img))
    /\ (poller = "polling" /\ counter >= Len(img)) ~> (poller = "finished")

\* C13: a lookup that finds the key in the cache takes get_color straight
\* to its return with the stored colour: the closest-points query is not
\* run and the cache stays as it was.
HitReturnsStored ==
    [][\A t \in Threads :
          th[t].pc = "get" /\ th'[t] # th[t] /\ th[t].rgb \in DOMAIN cache =>
              /\ th'[t].pc = "ret"
              /\ th'[t].ret = cache[th[t].rgb]
              /\ th'[t].new = NoColour
              /\ cache' = cache]_vars
HitReturnsStoredWitness ==
    \E t \in Threads :
        /\ th[t].pc = "ret"
        /\ th[t].new = NoColour
        /\ th[t].rgb \in DOMAIN cache
        /\ th[t].ret = cache[th[t].rgb]
        /\ th[t].ret # th[t].rgb
        /\ Cardinality(DOMAIN cache) = 1

\* C14: a get_color that missed the cache is about to return the colour
\* the closest-points query gave for its key, and the cache holds that
\* colour under that key.
MissStores ==
    \A t \in Threads :
        th[t].pc = "ret" /\ th[t].new # NoColour =>
            /\ th[t].ret = th[t].new
            /\ th[t].ret = Resolve(th[t].rgb)
            /\ th[t].rgb \in DOMAIN cache
            /\ cache[th[t].rgb] = th[t].ret
MissStoresWitness ==
    \E t \in Threads :
        /\ th[t].pc = "ret"
        /\ th[t].new # NoColour
        /\ th[t].new # th[t].rgb
        /\ cache[th[t].rgb] = th[t].ret
        /\ Cardinality(DOMAIN cache) = 2

\* C15: the counter starts at 0; it is always the number of pixels whose
\* colour was yielded, and never more than the number of pixels; once the
\* parallel map is over it is the number of pixels; it never decreases,
\* and it changes only by 1, in the step of a worker whose get_color has
\* returned.
Yielded == {i \in DOMAIN out : out[i] # NoColour}
CounterCounts ==
    /\ counter = 0
    /\ [](counter = Cardinality(Yielded))
    /\ [](counter <= Len(img))
    /\ [](pcMain = "save" \/ bytes # <<>> \/ saved # <<>>
             => counter = Len(img))
    /\ [][/\ counter' >= counter
          /\ counter' # counter =>
                /\ counter' = counter + 1
                /\ \E t \in Threads :
                     /\ th[t].pc = "ret"
                     /\ th'[t] = Idle
                     /\ Yielded' = Yielded \cup {th[t].idx}
                     /\ th[t].idx \notin Yielded]_vars
CounterCountsWitness ==
    /\ pcMain = "map"
    /\ Len(img) = MaxPixels
    /\ counter = 1
    /\ \E t \in Threads : th[t].pc = "ret"
    /\ \E t \in Threads : th[t].pc = "query"

\* C16: a get_color whose closest-points query reports Disjoint panics in
\* that step, leaving the cache and the colours returned as they were, and
\* never moves again; so every colour stored or returned is the one the
\* closest point gives, never one made up for a Disjoint answer.
DisjointAborts ==
    /\ [](\A k \in DOMAIN cache : cache[k] = Resolve(k))
    /\ [](\A r \in returned : r[2] = Resolve(r[1]))
    /\ [][\A t \in Threads :
            /\ th[t].pc # "panicked" /\ th'[t].pc = "panicked" =>
                  /\ th[t].pc = "query"
                  /\ th'[t].new = NoColour /\ th'[t].ret = NoColour
                  /\ cache' = cache
                  /\ returned' = returned
            /\ th[t].pc = "panicked" => th'[t] = th[t]]_vars
DisjointAbortsWitness ==
    \E t \in Threads :
        /\ th[t].pc = "panicked"
        /\ ~InRegion(th[t].rgb)
        /\ th[t].rgb \notin DOMAIN cache
        /\ \A r \in returned : r[1] # th[t].rgb
        /\ cache # EmptyMap

\* C17: a query outside the region is resolved to the closest point of the
\* region with each channel truncated toward zero: that point lies on the
\* boundary of the region (in the region and on the plane of a face that
\* has the whole palette on one side), no point of the region among the
\* colours of the cube and the projections of the query on the region's
\* vertices, edges and faces is strictly closer to the query, and each
\* channel of the result is the integer part of the point's channel.
OnBoundary(H, P) ==
    /\ InHull(H, P)
    /\ \E f \in H.faces :
         LET a == H.points[f[1]]
             b == H.points[f[2]]
             c == H.points[f[3]]
         IN  /\ Cross(Sub(b, a), Sub(c, a)) # <<0, 0, 0>>
             /\ Orient(a, b, c, P) = 0
             /\ \/ \A i \in DOMAIN H.points :
                      Orient(a, b, c, OfPoint(H.points[i])) >= 0
                \/ \A i \in DOMAIN H.points :
                      Orient(a, b, c, OfPoint(H.points[i])) <= 0
Closer(q, Q, P) ==
    Dist2Num(q, Q) * Dist2Den(P) < Dist2Num(q, P) * Dist2Den(Q)
ClosestOnBoundary ==
    \A t \in Threads :
        Resolved(t) /\ ~InRegion(th[t].rgb) =>
            LET H == space.colorspace
                q == th[t].rgb
                P == ClosestPoint(H, q)
            IN  /\ OnBoundary(H, P)
                /\ \A Q \in Projections(H, q) \cup {OfPoint(x) : x \in RGB} :
                     InHull(H, Q) => ~Closer(q, Q, P)
                /\ \A c \in 1..3 :
                     /\ th[t].new[c] * P.d <= P.n[c]
                     /\ P.n[c] < (th[t].new[c] + 1) * P.d
ClosestOnBoundaryWitness ==
    \E t \in Threads :
        /\ Resolved(t)
        /\ ~InRegion(th[t].rgb)
        /\ LET P == ClosestPoint(space.colorspace, th[t].rgb)
           IN  /\ \E c \in 1..3 : P.n[c] % P.d # 0
               /\ \E c \in 1..3 : th[t].new[c] # th[t].rgb[c]

\* C18: whenever the output file has been written, it was written once,
\* with the collected buffer, after every pixel had been drained, mapped and
\* counted and every worker had ended; it is written only by main's save
\* step; and when a worker has panicked it is never written.
WriteAfterAssembly ==
    /\ [](saved # <<>> =>
            /\ saved = <<bytes>>
            /\ Len(bytes) = 3 * Len(img)
            /\ pending = {}
            /\ counter = Len(img)
            /\ \A i \in DOMAIN img : out[i] # NoColour
            /\ \A t \in Threads : th[t].pc = "idle")
    /\ []((result = "panic" \/ \E t \in Threads : th[t].pc = "panicked")
            => saved = <<>>)
    /\ [][saved' # saved =>
            /\ pcMain = "save"
            /\ pcMain' = "exit"
            /\ saved' = <<bytes>>]_vars
WriteAfterAssemblyWitness ==
    /\ result = "panic"
    /\ pcMain = "exit"
    /\ counter >= 1
    /\ pending # {}
    /\ saved = <<>>

\* C19: once the palette space is built, its hull, its ball and its
\* placement are those new built from the palette, and no step changes
\* them; a step of get_color changes, of the palette space, at most the
\* cache.
GeometryReadOnly ==
    /\ [](built = "Ok" =>
            /\ space.colorspace = Hull(palette)
            /\ space.zero_ball = 0
            /\ space.zero_iso = <<0, 0, 0>>)
    /\ [][built # "none" =>
            /\ space' = space
            /\ built' = built
            /\ palette' = palette]_vars
GeometryReadOnlyWitness ==
    /\ built = "Ok"
    /\ cache # EmptyMap
    /\ \E t \in Threads, u \in Threads :
         /\ th[t].pc = "ret" /\ th[t].new = NoColour
         /\ th[u].pc = "insert"

\* C20: every key of the cache is a colour get_color has been called with
\* (by a call that returned or one still running), so the cache has no more
\* entries than distinct colours were asked for, than calls were begun, and
\* than there are colours.
Queried ==
    {r[1] : r \in returned}
    \cup {th[t].rgb : t \in {u \in Threads : th[u].pc # "idle"}}
CacheWithinQueried ==
    /\ DOMAIN cache \subseteq Queried
    /\ Queried \subseteq RGB
    /\ Cardinality(DOMAIN cache) <= Cardinality(Queried)
    /\ Cardinality(Queried) <= calls
    /\ Cardinality(DOMAIN cache) <= Cardinality(RGB)
CacheWithinQueriedWitness ==
    /\ Cardinality(DOMAIN cache) = 2
    /\ \E k \in DOMAIN cache : cache[k] \notin Queried
    /\ \E r \in returned : \A t \in Threads : th[t].rgb # r[1]
====
